---- MODULE Spec2Model ----
(***************************************************************************)
(* Visitor management system: the visitors table, the registration        *)
(* handler with its QR and e-mail side channels, the approve / release /   *)
(* security-checkout handlers, the statistics and listing queries and the  *)
(* dashboard broadcaster of server.js.                                     *)
(*                                                                         *)
(* A text value is a sequence of one-character strings.  A timestamp is a  *)
(* pair <<format, clock reading>>: the two writers of timestamps produce   *)
(* different text formats.  SQL NULL is the one-element tuple NULL, which  *)
(* is neither a text of characters nor a timestamp.  SQLite booleans are   *)
(* the integers 0 and 1.                                                   *)
(***************************************************************************)
EXTENDS Integers, Sequences, FiniteSets, TLC

\* Number of POST /api/visitors requests that arrive (one slot each).
MaxReq == 2
\* Largest reading of the wall clock.
MaxTime == 1
\* Number of dashboard connections that are ever opened.
MaxClients == 2
\* Largest number of update frames written to one connection.
MaxFrames == 2
\* Number of clock readings in a day.
TicksPerDay == 2

Reqs == 1..MaxReq
\* The ids requests name: those the table can hold and one it never holds.
Ids == 1..(MaxReq + 1)
Conns == 1..MaxClients

NULL == <<"NULL">>
Missing == <<"undefined">>

VARIABLES
  visitors,          \* the visitors table: id -> row
  seq,               \* sqlite_sequence: the largest id AUTOINCREMENT has given
  now,               \* the wall clock
  reqs,              \* the POST /api/visitors requests: position and locals
  pending,           \* statements handed to db.run without a callback, not yet run
  approving,         \* approve requests between their UPDATE and their SELECT
  reply,             \* the approve / release / security-checkout response of this step
  dashboardClients,  \* the Set of open SSE responses
  closedConns,       \* connections whose 'close' event has fired
  frames             \* connection -> number of "data: update" frames written to it

vars == <<visitors, seq, now, reqs, pending, approving, reply,
          dashboardClients, closedConns, frames>>

-----------------------------------------------------------------------------
(* Text *)

\* The characters of the class [0-9].
DigitChars == {"0", "1", "2", "3", "4", "5", "6", "7", "8", "9"}

\* String.prototype.trim as the browser form applies it before submitting.
RECURSIVE TrimLeft(_)
TrimLeft(s) == IF s # <<>> /\ Head(s) = " " THEN TrimLeft(Tail(s)) ELSE s

RECURSIVE TrimRight(_)
TrimRight(s) ==
  IF s # <<>> /\ s[Len(s)] = " " THEN TrimRight(SubSeq(s, 1, Len(s) - 1)) ELSE s

Trim(s) == TrimRight(TrimLeft(s))

\* JavaScript truthiness of a form field: undefined and "" are falsy.
Truthy(v) == v # Missing /\ v # <<>>

\* SQLite GLOB: a pattern is a sequence of tokens, a character class or a star.
Class(cs) == [star |-> FALSE, chars |-> cs]
Star == [star |-> TRUE, chars |-> {}]

RECURSIVE Glob(_, _)
Glob(p, s) ==
  IF p = <<>> THEN s = <<>>
  ELSE IF Head(p).star
       THEN Glob(Tail(p), s) \/ (s # <<>> /\ Glob(p, Tail(s)))
       ELSE s # <<>> /\ Head(s) \in Head(p).chars /\ Glob(Tail(p), Tail(s))

\* CONSTRAINT chk_contact CHECK (contact_number GLOB '[0-9]*')
chk_contact(contact_number) == Glob(<<Class(DigitChars), Star>>, contact_number)

-----------------------------------------------------------------------------
(* Responses of the approve, release and security-checkout endpoints *)

Reply(op, id, status, name) ==
  [op |-> op, id |-> id, status |-> status, name |-> name]

\* reply holds the response the step just taken sent, NoReply when it sent none.
NoReply == Reply("none", 0, 0, <<>>)

-----------------------------------------------------------------------------
(* Time *)

\* new Date().toISOString(): "YYYY-MM-DDTHH:MM:SS.sssZ"
ToISOString(t) == <<"iso", t>>
\* SQLite CURRENT_TIMESTAMP: "YYYY-MM-DD HH:MM:SS"
CurrentTimestamp(t) == <<"sql", t>>

\* The calendar date, in days, and the time of day, in ticks, of a reading of
\* the clock.
DateOf(t) == t \div TicksPerDay
TimeOf(t) == t % TicksPerDay

\* The character that separates date and time in the text of a timestamp, as
\* its code: a space (32) in SQLite's format, a T (84) in ISO 8601.
Separator(fmt) == IF fmt = "sql" THEN 32 ELSE 84

\* The text of a timestamp as the fields that order it: the date, the
\* separator and the time of day, all of fixed width, and for an ISO text
\* the fraction and the Z that follow the seconds.  The two formats differ
\* from the eleventh character on.
TextOf(ts) ==
  IF ts[1] = "sql"
  THEN <<DateOf(ts[2]), Separator(ts[1]), TimeOf(ts[2])>>
  ELSE <<DateOf(ts[2]), Separator(ts[1]), TimeOf(ts[2]), 0>>

\* SQLite's comparison of two TEXT values: memcmp, the shorter first when one
\* is a prefix of the other.
RECURSIVE TextLess(_, _)
TextLess(a, b) ==
  IF b = <<>> THEN FALSE
  ELSE IF a = <<>> THEN TRUE
  ELSE IF Head(a) # Head(b) THEN Head(a) < Head(b)
  ELSE TextLess(Tail(a), Tail(b))

\* The offsets from UTC, in ticks, of the time zones the server may run in.
TzOffsets == {0 - 1, 0, 1}

\* startOfDay.setHours(0, 0, 0, 0): the reading of the clock at the last
\* midnight of the server's time zone.
StartOfDay(t, tz) == DateOf(t + tz) * TicksPerDay - tz

Tick ==
  /\ now < MaxTime
  /\ now' = now + 1
  /\ UNCHANGED <<visitors, seq, reqs, pending, approving, dashboardClients, closedConns, frames>>
  /\ reply' = NoReply

-----------------------------------------------------------------------------
(* Update Broadcaster *)

\* GET /api/visitors/updates: the response object joins the set.
Subscribe(c) ==
  /\ c \notin dashboardClients
  /\ c \notin closedConns
  /\ dashboardClients' = dashboardClients \cup {c}
  /\ UNCHANGED <<visitors, seq, now, reqs, pending, approving, closedConns, frames>>
  /\ reply' = NoReply

\* req.on('close'): the response object leaves the set.
Disconnect(c) ==
  /\ c \in dashboardClients
  /\ dashboardClients' = dashboardClients \ {c}
  /\ closedConns' = closedConns \cup {c}
  /\ UNCHANGED <<visitors, seq, now, reqs, pending, approving, frames>>
  /\ reply' = NoReply

\* notifyDashboardUpdate writing to every connection, open or not.
notifyEveryConnection(fr, clients) == [c \in DOMAIN fr |-> fr[c] + 1]

\* notifyDashboardUpdate: one frame written to every member of the set.
notifyDashboardUpdate(fr, clients) ==
  [c \in DOMAIN fr |-> IF c \in clients THEN fr[c] + 1 ELSE fr[c]]

\* The frame counters stay within MaxFrames.
CanNotify == \A c \in dashboardClients : frames[c] < MaxFrames

-----------------------------------------------------------------------------
(* Visitor Store *)

\* InsertRow with out_time given the default of in_time.
InsertRowTimedOut(id, full_name, contact_number, department_visiting, person_to_visit, photoPath, t) ==
  [id |-> id,
   full_name |-> full_name,
   contact_number |-> contact_number,
   department_visiting |-> department_visiting,
   person_to_visit |-> person_to_visit,
   in_time |-> CurrentTimestamp(t),
   out_time |-> CurrentTimestamp(t),
   security_confirmed |-> 0,
   security_out_time |-> NULL,
   photo_path |-> photoPath,
   email_sent |-> 0,
   approved |-> 0,
   qr_code_path |-> NULL]

\* The row an INSERT of the five bound values creates, with the column defaults.
InsertRow(id, full_name, contact_number, department_visiting, person_to_visit, photoPath, t) ==
  [id |-> id,
   full_name |-> full_name,
   contact_number |-> contact_number,
   department_visiting |-> department_visiting,
   person_to_visit |-> person_to_visit,
   in_time |-> CurrentTimestamp(t),
   out_time |-> NULL,
   security_confirmed |-> 0,
   security_out_time |-> NULL,
   photo_path |-> photoPath,
   email_sent |-> 0,
   approved |-> 0,
   qr_code_path |-> NULL]

\* The table constraints an INSERT must pass: NOT NULL on the four text
\* columns and chk_contact.
InsertAccepted(full_name, contact_number, department_visiting, person_to_visit) ==
  /\ full_name # NULL /\ contact_number # NULL
  /\ department_visiting # NULL /\ person_to_visit # NULL
  /\ chk_contact(contact_number)

\* UpdateWhereId with the WHERE clause left off: every row is updated.
UpdateEveryRow(tbl, id, set) ==
  [i \in DOMAIN tbl |->
     [col \in DOMAIN tbl[i] |->
        IF col \in DOMAIN set THEN set[col] ELSE tbl[i][col]]]

\* UpdateWhereId as a DELETE FROM visitors WHERE id = ?
DeleteWhereId(tbl, id, set) == [i \in DOMAIN tbl \ {id} |-> tbl[i]]

\* UPDATE visitors SET <column> = <value>, ... WHERE id = ?
\* set is a function from column names to the new values.
UpdateWhereId(tbl, id, set) ==
  [i \in DOMAIN tbl |->
     IF i = id
     THEN [col \in DOMAIN tbl[i] |->
             IF col \in DOMAIN set THEN set[col] ELSE tbl[i][col]]
     ELSE tbl[i]]

\* Changes reporting a row for every id.
ChangesAnyId(tbl, id) == 1

\* Changes counting only a row whose approved flag the statement turns.
ChangesIfUnapproved(tbl, id) ==
  IF id \in DOMAIN tbl /\ tbl[id].approved = 0 THEN 1 ELSE 0

\* Changes counting only a row that has not been released.
ChangesIfNotReleased(tbl, id) ==
  IF id \in DOMAIN tbl /\ tbl[id].out_time = NULL THEN 1 ELSE 0

\* this.changes of an UPDATE ... WHERE id = ?
Changes(tbl, id) == IF id \in DOMAIN tbl THEN 1 ELSE 0

\* NextId giving the largest id again once one was given.
NextIdReused(s) == IF s = 0 THEN 1 ELSE s

\* id INTEGER PRIMARY KEY AUTOINCREMENT: the id the next INSERT gets, one more
\* than the largest the table ever gave (sqlite_sequence).
NextId(s) == s + 1

-----------------------------------------------------------------------------
(* POST /api/visitors *)

NoResponse == <<>>

\* The fields of a multipart form; photo says whether a file was uploaded.
Body(fn, cn, dv, pv, photo) ==
  [full_name |-> fn, contact_number |-> cn, department_visiting |-> dv,
   person_to_visit |-> pv, photo |-> photo]

NoBody == Body(Missing, Missing, Missing, Missing, FALSE)

IdleReq ==
  [pc |-> "idle", body |-> NoBody, visitorId |-> 0, qrPath |-> NULL,
   response |-> NoResponse]

\* if (!full_name || !contact_number || !department_visiting || !person_to_visit)
RequiredFieldsPresent(body) ==
  /\ Truthy(body.full_name)
  /\ Truthy(body.contact_number)
  /\ Truthy(body.department_visiting)
  /\ Truthy(body.person_to_visit)

\* req.file ? req.file.path : null, for the file of request r
PhotoPath(r, body) == IF body.photo THEN <<"uploads/photo", r>> ELSE NULL

\* The request arrives: validation, then the INSERT is handed to db.run.
RegisterReceive(r, body) ==
  /\ reqs[r].pc = "idle"
  /\ \A q \in 1..(r - 1) : reqs[q].pc # "idle"
  /\ IF RequiredFieldsPresent(body)
     THEN reqs' = [reqs EXCEPT ![r].pc = "insert", ![r].body = body]
     ELSE reqs' = [reqs EXCEPT ![r].pc = "done", ![r].body = body,
                               ![r].response = <<400>>]
  /\ UNCHANGED <<visitors, seq, now, pending, approving, dashboardClients, closedConns, frames>>
  /\ reply' = NoReply

\* SQLite runs the INSERT and the callback starts: on an error the response
\* is 500; otherwise this.lastID is the new id and generateQRCode is awaited.
\* dbErr is a storage failure other than a constraint (disk, lock, no table).
RegisterInsert(r, dbErr) ==
  /\ reqs[r].pc = "insert"
  /\ LET b == reqs[r].body
         accepted == /\ ~dbErr
                     /\ InsertAccepted(b.full_name, b.contact_number,
                                       b.department_visiting, b.person_to_visit)
         id == NextId(seq)
     IN IF accepted
        THEN /\ visitors' =
                  [i \in DOMAIN visitors \cup {id} |->
                     IF i = id
                     THEN InsertRow(id, b.full_name, b.contact_number,
                                    b.department_visiting, b.person_to_visit,
                                    PhotoPath(r, b), now)
                     ELSE visitors[i]]
             /\ seq' = id
             /\ reqs' = [reqs EXCEPT ![r].pc = "qr", ![r].visitorId = id]
        ELSE /\ reqs' = [reqs EXCEPT ![r].pc = "done", ![r].response = <<500>>]
             /\ UNCHANGED <<visitors, seq>>
  /\ UNCHANGED <<now, pending, approving, dashboardClients, closedConns, frames>>
  /\ reply' = NoReply

\* generateQRCode: the path when QRCode.toFile resolves, null when it rejects.
generateQRCode(visitorId, ok) ==
  IF ok THEN <<"uploads/qr", visitorId>> ELSE NULL

\* Stmt naming the first row whatever id it is given.
StmtFirstRow(col, id) == [col |-> col, id |-> 1]

\* A statement handed to db.run without a callback: the column and the id.
Stmt(col, id) == [col |-> col, id |-> id]

\* The value such a statement binds to its column.
StmtValue(st) ==
  IF st.col = "qr_code_path" THEN generateQRCode(st.id, TRUE) ELSE 1

\* QRCode.toFile settles: the qr_code_path UPDATE is queued when a path came
\* back, then sendEmails starts and awaits the send to HR.
RegisterQRDone(r, ok) ==
  /\ reqs[r].pc = "qr"
  /\ LET qrPath == generateQRCode(reqs[r].visitorId, ok)
     IN /\ reqs' = [reqs EXCEPT ![r].pc = "hr", ![r].qrPath = qrPath]
        /\ pending' = IF qrPath # NULL
                      THEN pending \cup {Stmt("qr_code_path", reqs[r].visitorId)}
                      ELSE pending
  /\ UNCHANGED <<visitors, seq, now, approving, dashboardClients, closedConns, frames>>
  /\ reply' = NoReply

\* res.json({ id: visitorId, message }) after sendEmails has returned.
RegisterRespond(rq) ==
  [rq EXCEPT !.pc = "done", !.response = <<200, rq.visitorId>>]

\* AfterHRSend with the rejection of the send not caught: the handler ends
\* without responding.
AfterHRSendUncaught(rq, ok) ==
  IF ok THEN [rq EXCEPT !.pc = "host"] ELSE [rq EXCEPT !.pc = "done"]

\* AfterHRSend going on to the host whatever the HR send did.
AfterHRSendGoesOn(rq, ok) == [rq EXCEPT !.pc = "host"]

\* What the handler does when the awaited HR send settles: on success the send
\* to the host is awaited; a rejection is caught, sendEmails returns and the
\* handler responds.
AfterHRSend(rq, ok) ==
  IF ok THEN [rq EXCEPT !.pc = "host"] ELSE RegisterRespond(rq)

RegisterHRDone(r, ok) ==
  /\ reqs[r].pc = "hr"
  /\ reqs' = [reqs EXCEPT ![r] = AfterHRSend(reqs[r], ok)]
  /\ UNCHANGED <<visitors, seq, now, pending, approving, dashboardClients, closedConns, frames>>
  /\ reply' = NoReply

\* The awaited host send settles: on success the email_sent UPDATE is queued;
\* either way sendEmails returns and the handler responds.
RegisterHostDone(r, ok) ==
  /\ reqs[r].pc = "host"
  /\ reqs' = [reqs EXCEPT ![r] = RegisterRespond(reqs[r])]
  /\ pending' = IF ok
                THEN pending \cup {Stmt("email_sent", reqs[r].visitorId)}
                ELSE pending
  /\ UNCHANGED <<visitors, seq, now, approving, dashboardClients, closedConns, frames>>
  /\ reply' = NoReply

\* SQLite runs a queued UPDATE visitors SET <col> = ? WHERE id = ?
RunPending(st) ==
  /\ st \in pending
  /\ pending' = pending \ {st}
  /\ visitors' = UpdateWhereId(visitors, st.id, st.col :> StmtValue(st))
  /\ UNCHANGED <<seq, now, reqs, approving, dashboardClients, closedConns, frames>>
  /\ reply' = NoReply

-----------------------------------------------------------------------------
(* GET /api/visitors/:id/approve, POST .../release, POST .../security-checkout *)

\* The UPDATE of the approval endpoint and its callback: 500 on an error, 404
\* when no row changed, otherwise the SELECT is handed to db.get.
Approve(id, dbErr) ==
  /\ IF dbErr
     THEN /\ reply' = Reply("approve", id, 500, <<>>)
          /\ UNCHANGED <<visitors, approving>>
     ELSE /\ visitors' = UpdateWhereId(visitors, id, "approved" :> 1)
          /\ IF Changes(visitors, id) = 0
             THEN /\ reply' = Reply("approve", id, 404, <<>>)
                  /\ UNCHANGED approving
             ELSE /\ approving' = approving \cup {id}
                  /\ reply' = NoReply
  /\ UNCHANGED <<seq, now, reqs, pending, dashboardClients, closedConns, frames>>

\* The SELECT of the approval endpoint and its callback: 404 on an error or
\* no row, otherwise the page naming the visitor.
ApproveSelect(id, dbErr) ==
  /\ id \in approving
  /\ approving' = approving \ {id}
  /\ reply' = IF dbErr \/ id \notin DOMAIN visitors
              THEN Reply("approve", id, 404, <<>>)
              ELSE Reply("approve", id, 200, visitors[id].full_name)
  /\ UNCHANGED <<visitors, seq, now, reqs, pending,
                 dashboardClients, closedConns, frames>>

\* The status the release and security-checkout callbacks answer with.
UpdateStatus(dbErr, changes) == IF dbErr THEN 500 ELSE 200

\* The release endpoint: releaseTime is the clock's reading, the UPDATE binds
\* it, and the callback publishes and answers.
Release(id, dbErr) ==
  /\ reply' = Reply("release", id, UpdateStatus(dbErr, Changes(visitors, id)), <<>>)
  /\ IF dbErr
     THEN UNCHANGED <<visitors, frames>>
     ELSE /\ CanNotify
          /\ visitors' = UpdateWhereId(visitors, id, "out_time" :> ToISOString(now))
          /\ frames' = notifyDashboardUpdate(frames, dashboardClients)
  /\ UNCHANGED <<seq, now, reqs, pending, approving, dashboardClients, closedConns>>

\* The security-checkout endpoint, of the same shape.
SecurityCheckout(id, dbErr) ==
  /\ reply' = Reply("security-checkout", id,
                    UpdateStatus(dbErr, Changes(visitors, id)), <<>>)
  /\ IF dbErr
     THEN UNCHANGED <<visitors, frames>>
     ELSE /\ CanNotify
          /\ visitors' = UpdateWhereId(visitors, id,
                           ("security_confirmed" :> 1)
                             @@ ("security_out_time" :> ToISOString(now)))
          /\ frames' = notifyDashboardUpdate(frames, dashboardClients)
  /\ UNCHANGED <<seq, now, reqs, pending, approving, dashboardClients, closedConns>>

-----------------------------------------------------------------------------
(* GET /api/visitors/stats and GET /api/visitors *)

\* A SQL integer result: NULL or SqlInt(n).
SqlInt(n) == <<"int", n>>

\* SUM(CASE WHEN p THEN 1 ELSE 0 END) over the table, matching being the rows
\* that satisfy p: NULL when the table has no row.
SumCase(tbl, matching) ==
  IF DOMAIN tbl = {} THEN NULL ELSE SqlInt(Cardinality(matching))

\* row.x || 0
OrZero(v) == IF v = NULL THEN 0 ELSE v[2]

IsActive(row) == row.out_time = NULL
\* IsSecured without its out_time IS NOT NULL test.
IsSecuredAnyOutTime(row) == row.security_confirmed = 1

IsSecured(row) == row.out_time # NULL /\ row.security_confirmed = 1
IsSecurityPending(row) == row.out_time # NULL /\ row.security_confirmed = 0

\* The statistics endpoint's response.
Stats(tbl) ==
  [total |-> OrZero(SqlInt(Cardinality(DOMAIN tbl))),
   active |-> OrZero(SumCase(tbl, {i \in DOMAIN tbl : IsActive(tbl[i])})),
   secured |-> OrZero(SumCase(tbl, {i \in DOMAIN tbl : IsSecured(tbl[i])})),
   security_pending |->
     OrZero(SumCase(tbl, {i \in DOMAIN tbl : IsSecurityPending(tbl[i])}))]

\* The WHERE clause the listing endpoint builds for ?status=
ListWhere(status, row) ==
  IF status = "active" THEN IsActive(row)
  ELSE IF status = "released" THEN IsSecured(row)
  ELSE IF status = "security-pending" THEN IsSecurityPending(row)
  ELSE TRUE

\* The ids of the rows the listing endpoint returns.
ListIds(tbl, status) == {i \in DOMAIN tbl : ListWhere(status, tbl[i])}

\* The listing endpoint's possible responses: the matching rows ORDER BY
\* in_time DESC (rows of equal in_time in either order), as sequences of ids.
List(tbl, status) ==
  LET ids == ListIds(tbl, status)
      n == Cardinality(ids)
  IN {s \in [1..n -> ids] :
        /\ \A i, j \in 1..n : i # j => s[i] # s[j]
        /\ \A i, j \in 1..n : i < j => tbl[s[i]].in_time[2] >= tbl[s[j]].in_time[2]}

-----------------------------------------------------------------------------
(* GET /api/visitors/export *)

\* The WHERE clause of the export for ?period=day, in_time >= ? bound to
\* startOfDay.toISOString(), and for no period.  The week and month cutoffs,
\* which read the calendar, are not modelled.
ExportWhere(period, row, t, tz) ==
  IF period = "day"
  THEN ~TextLess(TextOf(row.in_time), TextOf(ToISOString(StartOfDay(t, tz))))
  ELSE TRUE

\* The Status cell of a row of the sheet.
ExportStatus(row) ==
  IF row.out_time # NULL
  THEN (IF row.security_confirmed = 1 THEN "Completed" ELSE "Pending Checkout")
  ELSE "Active"

\* The data rows of the sheet, as a set: the id and the status of each.
ExportRows(tbl, period, t, tz) ==
  {[id |-> i, status |-> ExportStatus(tbl[i])] :
     i \in {j \in DOMAIN tbl : ExportWhere(period, tbl[j], t, tz)}}

-----------------------------------------------------------------------------
(* The system *)

Init ==
  /\ visitors = [i \in {} |-> 0]
  /\ seq = 0
  /\ now = 0
  /\ reqs = [r \in Reqs |-> IdleReq]
  /\ pending = {}
  /\ approving = {}
  /\ reply = NoReply
  /\ dashboardClients = {}
  /\ closedConns = {}
  /\ frames = [c \in Conns |-> 0]

\* Text values of form fields.
JaneDoe == <<"a", " ", "a">>
Phone == <<"5", "5">>
Dept == <<"a">>

\* The forms submitted where the text of the fields is not at issue: a
\* complete one and one with a field left out.
LifecycleBodies ==
  {Body(JaneDoe, Phone, Dept, JaneDoe, FALSE),
   Body(JaneDoe, Phone, Dept, Missing, FALSE)}

\* The values a form field is given where its text is at issue: left out,
\* empty, blank, digits, a digit then a letter, a letter.
FieldValues == {Missing, <<>>, <<" ">>, <<"5">>, <<"5", "a">>, <<"a">>}

\* The complete form with one field given each of FieldValues, and the
\* complete form with a photo.
FormBodies ==
  {Body(v, Phone, Dept, JaneDoe, FALSE) : v \in FieldValues}
  \cup {Body(JaneDoe, v, Dept, JaneDoe, FALSE) : v \in FieldValues}
  \cup {Body(JaneDoe, Phone, v, JaneDoe, FALSE) : v \in FieldValues}
  \cup {Body(JaneDoe, Phone, Dept, v, FALSE) : v \in FieldValues}
  \cup {Body(JaneDoe, Phone, Dept, JaneDoe, TRUE)}

\* Arrival and INSERT of registrations whose forms come from B.
RegisterCore(B) ==
  \/ \E r \in Reqs, body \in B : RegisterReceive(r, body)
  \/ \E r \in Reqs, dbErr \in BOOLEAN : RegisterInsert(r, dbErr)

\* The side channels of registration, each outcome possible.
SideChannels ==
  \/ \E r \in Reqs, ok \in BOOLEAN : RegisterQRDone(r, ok)
  \/ \E r \in Reqs, ok \in BOOLEAN : RegisterHRDone(r, ok)
  \/ \E r \in Reqs, ok \in BOOLEAN : RegisterHostDone(r, ok)
  \/ \E st \in pending : RunPending(st)

\* The side channels with the QR renderer and the mail transport down: they
\* write nothing to the table.
SideChannelsDown ==
  \/ \E r \in Reqs : RegisterQRDone(r, FALSE)
  \/ \E r \in Reqs : RegisterHRDone(r, FALSE)

\* The approve, release and security-checkout requests; E is the set of
\* storage outcomes (TRUE: the statement fails).
Lifecycle(E) ==
  \/ \E id \in Ids, dbErr \in E : Approve(id, dbErr)
  \/ \E id \in Ids, dbErr \in E : ApproveSelect(id, dbErr)
  \/ \E id \in Ids, dbErr \in E : Release(id, dbErr)
  \/ \E id \in Ids, dbErr \in E : SecurityCheckout(id, dbErr)

Broadcast ==
  \/ \E c \in Conns : Subscribe(c)
  \/ \E c \in Conns : Disconnect(c)

\* The visitor lifecycle: registrations and every approve, release and
\* security-checkout request, storage failures included.
Next == RegisterCore(LifecycleBodies) \/ SideChannelsDown \/ Lifecycle(BOOLEAN)

Spec == Init /\ [][Next]_vars

\* The handlers that read the clock, with the clock running and the store
\* answering: registration, release and security-checkout.
NextClock ==
  \/ Tick
  \/ RegisterCore(LifecycleBodies)
  \/ SideChannelsDown
  \/ \E id \in Ids : Release(id, FALSE)
  \/ \E id \in Ids : SecurityCheckout(id, FALSE)

SpecClock == Init /\ [][NextClock]_vars

\* Registration with its side channels, every outcome of each.
NextRegister == Tick \/ RegisterCore(LifecycleBodies) \/ SideChannels

SpecRegister == Init /\ [][NextRegister]_vars

\* Registration of forms whose field texts vary.
NextValidate == RegisterCore(FormBodies) \/ SideChannelsDown

SpecValidate == Init /\ [][NextValidate]_vars

\* The dashboard connections opening and closing while visitors are stored,
\* approved, released and checked out; the release and security-checkout
\* statements may fail.
NextBroadcast ==
  \/ Broadcast
  \/ RegisterCore(LifecycleBodies)
  \/ \E id \in Ids : Approve(id, FALSE)
  \/ \E id \in Ids : ApproveSelect(id, FALSE)
  \/ \E id \in Ids, dbErr \in BOOLEAN : Release(id, dbErr)
  \/ \E id \in Ids, dbErr \in BOOLEAN : SecurityCheckout(id, dbErr)

SpecBroadcast == Init /\ [][NextBroadcast]_vars

\* Two complete forms that differ in every field, the second with a photo.
JohnRoe == <<"b">>
OverlapBodies ==
  {Body(JaneDoe, Phone, Dept, JaneDoe, FALSE),
   Body(JohnRoe, <<"7">>, <<"b", "b">>, JohnRoe, TRUE)}

\* Registrations of different forms in flight together, with every outcome of
\* their side channels.
NextOverlap == RegisterCore(OverlapBodies) \/ SideChannels

SpecOverlap == Init /\ [][NextOverlap]_vars

\* Registration with its side channels, every outcome of each, while the
\* visitors stored are approved, released and checked out, the store answering.
NextMail == RegisterCore(LifecycleBodies) \/ SideChannels \/ Lifecycle({FALSE})

SpecMail == Init /\ [][NextMail]_vars

-----------------------------------------------------------------------------
(* Claims *)

\* C1: a release request for an id that has no visitor record is answered 404
\* (not 200), changes no record and creates none, in every store state (a
\* request the store failed on, answered 500, aside).
C1_ReleaseUnknownIdNotFound ==
  [][\A id \in Ids :
       (/\ reply'.op = "release" /\ reply'.id = id /\ reply'.status # 500
        /\ id \notin DOMAIN visitors)
       => (reply'.status = 404 /\ visitors' = visitors /\ seq' = seq)]_vars

\* C2: a security-checkout request for an id that has no visitor record is
\* answered 404 (not 200) and changes no record (a request the store failed
\* on, answered 500, aside).
C2_CheckoutUnknownIdNotFound ==
  [][\A id \in Ids :
       (/\ reply'.op = "security-checkout" /\ reply'.id = id
        /\ reply'.status # 500 /\ id \notin DOMAIN visitors)
       => (reply'.status = 404 /\ visitors' = visitors)]_vars

\* C3: in every reachable state, a record with security_confirmed set has
\* out_time set.
C3_ConfirmedImpliesReleased ==
  \A i \in DOMAIN visitors :
    visitors[i].security_confirmed = 1 => visitors[i].out_time # NULL

\* C4: once a record's out_time is set, no step clears it or changes it.
C4_OutTimeNeverAltered ==
  [][\A i \in DOMAIN visitors :
       visitors[i].out_time # NULL
       => (i \in DOMAIN visitors' /\ visitors'[i].out_time = visitors[i].out_time)]_vars

\* A form field that is missing, empty, or empty once trimmed.
Blank(v) == v = Missing \/ Trim(v) = <<>>

HasBlankField(body) ==
  \/ Blank(body.full_name)
  \/ Blank(body.contact_number)
  \/ Blank(body.department_visiting)
  \/ Blank(body.person_to_visit)

\* C5: a registration with a required field missing, empty or blank is
\* answered 400 and creates no record.
C5_BlankFieldRejected ==
  \A r \in Reqs :
    (reqs[r].pc # "idle" /\ HasBlankField(reqs[r].body))
    => /\ reqs[r].visitorId = 0
       /\ reqs[r].pc = "done" => reqs[r].response = <<400>>

\* C6: in every reachable state, the contact_number of every stored record
\* consists of digit characters only.
C6_ContactDigitsOnly ==
  \A i \in DOMAIN visitors :
    \A k \in 1..Len(visitors[i].contact_number) :
      visitors[i].contact_number[k] \in DigitChars

\* C7: registration responds once the record is stored, without waiting for
\* the QR generation or an e-mail send: whenever the handler is waiting for
\* one of them, its response has been sent.
C7_ResponseBeforeSideChannels ==
  \A r \in Reqs :
    reqs[r].pc \in {"qr", "hr", "host"} => reqs[r].response # NoResponse

\* C8: a registration whose record was stored and whose side channels have
\* all settled, whatever their outcomes, has answered 200 with the new id, and
\* the record is in the store.
C8_SideChannelOutcomesDoNotFailRegister ==
  \A r \in Reqs :
    (reqs[r].visitorId # 0 /\ reqs[r].pc = "done")
    => /\ reqs[r].response = <<200, reqs[r].visitorId>>
       /\ reqs[r].visitorId \in DOMAIN visitors

\* C8 witness: a stored registration that has answered although the QR
\* generation failed and an e-mail send failed.
C8_Witness ==
  \E r \in Reqs :
    /\ reqs[r].pc = "done"
    /\ reqs[r].visitorId \in DOMAIN visitors
    /\ reqs[r].qrPath = NULL
    /\ Stmt("email_sent", reqs[r].visitorId) \notin pending
    /\ visitors[reqs[r].visitorId].email_sent = 0
    /\ reqs[r].response = <<200, reqs[r].visitorId>>

\* The number of buckets (active, security-pending, secured) a row counts in.
Buckets(row) ==
  (IF IsActive(row) THEN 1 ELSE 0)
  + (IF IsSecurityPending(row) THEN 1 ELSE 0)
  + (IF IsSecured(row) THEN 1 ELSE 0)

\* C9: in every reachable state the statistics satisfy
\* total = active + security_pending + secured, and every record counts in
\* exactly one of the three.
C9_StatsPartition ==
  LET st == Stats(visitors)
  IN /\ st.total = st.active + st.security_pending + st.secured
     /\ st.total = Cardinality(DOMAIN visitors)
     /\ \A i \in DOMAIN visitors : Buckets(visitors[i]) = 1

\* C9 witness: two records, one secured and one that was security-confirmed
\* without having been released.
C9_Witness ==
  /\ Stats(visitors) = [total |-> 2, active |-> 1, secured |-> 1,
                        security_pending |-> 0]
  /\ \E i \in DOMAIN visitors :
       visitors[i].out_time = NULL /\ visitors[i].security_confirmed = 1

\* id is absent from the active listing and in exactly one of the
\* security-pending and released listings, the one security_confirmed names.
ListedAsReleased(tbl, id) ==
  /\ id \notin ListIds(tbl, "active")
  /\ (id \in ListIds(tbl, "security-pending")) # (id \in ListIds(tbl, "released"))
  /\ id \in ListIds(tbl, "released")
       <=> (id \in DOMAIN tbl /\ tbl[id].security_confirmed = 1)

\* C10: after a release of id answered 200, in every later state id is
\* ListedAsReleased (it is so after the release, and no step undoes it); and a
\* store of one approved, released and security-confirmed record has the
\* statistics total 1, active 0, secured 1, security_pending 0.
C10_ReleasedIsListed ==
  [][/\ \A id \in Ids :
          (\/ (reply'.op = "release" /\ reply'.id = id /\ reply'.status = 200)
           \/ ListedAsReleased(visitors, id))
          => ListedAsReleased(visitors', id)
     /\ \A id \in Ids :
          (/\ DOMAIN visitors' = {id}
           /\ visitors'[id].approved = 1
           /\ visitors'[id].out_time # NULL
           /\ visitors'[id].security_confirmed = 1)
          => Stats(visitors') = [total |-> 1, active |-> 0, secured |-> 1,
                                 security_pending |-> 0]]_vars

\* C11: the INSERT of a registration gives it an id that no record has and
\* that is greater than the id of every record and of every registration
\* stored before; a 200 response carries the id of the request's own record;
\* a request answered 400 or 500 was given no id and its response carries
\* none.
C11_RegisterIdsUniqueIncreasing ==
  [][\A r \in Reqs :
       /\ (reqs[r].visitorId = 0 /\ reqs'[r].visitorId # 0)
          => /\ reqs'[r].visitorId \notin DOMAIN visitors
             /\ reqs'[r].visitorId \in DOMAIN visitors'
             /\ \A i \in DOMAIN visitors : reqs'[r].visitorId > i
             /\ \A q \in Reqs \ {r} : reqs'[r].visitorId > reqs[q].visitorId
       /\ reqs[r].visitorId # 0 => reqs'[r].visitorId = reqs[r].visitorId
       /\ (Len(reqs'[r].response) = 2)
          => /\ reqs'[r].response = <<200, reqs'[r].visitorId>>
             /\ reqs'[r].visitorId # 0
             /\ \A q \in Reqs \ {r} :
                  Len(reqs'[q].response) = 2
                  => reqs'[q].response[2] # reqs'[r].response[2]
       /\ (reqs'[r].response # NoResponse /\ reqs'[r].response[1] # 200)
          => (Len(reqs'[r].response) = 1 /\ reqs'[r].visitorId = 0)]_vars

\* C11 witness: two registrations answered 200, the later stored one with the
\* greater id.
C11_Witness ==
  \E r, q \in Reqs :
    /\ reqs[r].response = <<200, 1>>
    /\ reqs[q].response = <<200, 2>>
    /\ DOMAIN visitors = {1, 2}

\* C12: an approve request for a record that is already approved, the store
\* answering, leaves the store as the first approval left it (approved = 1,
\* nothing else changed), raises no error and goes on to its SELECT like the
\* first; and the SELECT of an approval of an existing record, the store
\* answering, is answered 200 each time.
C12_ApproveIdempotent ==
  [][\A id \in DOMAIN visitors :
       /\ (Approve(id, FALSE) /\ visitors[id].approved = 1)
          => /\ visitors' = visitors
             /\ reply'.status \notin {404, 500}
             /\ id \in approving'
       /\ Approve(id, FALSE)
          => /\ visitors'[id].approved = 1
             /\ UpdateWhereId(visitors', id, "approved" :> 1) = visitors'
             /\ Changes(visitors', id) = 1
       /\ ApproveSelect(id, FALSE)
          => reply' = Reply("approve", id, 200, visitors[id].full_name)]_vars

\* C12 witness: an approval of a record has been answered 200 and the record
\* is approved: the state a repeated approve request starts from and ends in.
C12_Witness ==
  \E id \in DOMAIN visitors :
    /\ visitors[id].approved = 1
    /\ reply = Reply("approve", id, 200, visitors[id].full_name)

\* C13: an approve request for an id that has no record is answered 404 (a
\* request the store failed on, answered 500, aside), changes no record and
\* starts no SELECT; an approve request for an existing id, the store
\* answering, goes on to its SELECT and is answered 200; and whenever an
\* approval is answered 200, the row its SELECT read (the row of the store at
\* that step) has the id of the request and approved = 1, and the page names
\* that row's full_name.
C13_ApproveNotFoundOrSnapshot ==
  [][/\ \A id \in Ids \ DOMAIN visitors :
          /\ (reply'.op = "approve" /\ reply'.id = id /\ reply'.status # 500)
             => (reply'.status = 404 /\ visitors' = visitors /\ seq' = seq)
          /\ Approve(id, FALSE)
             => /\ reply' = Reply("approve", id, 404, <<>>)
                /\ visitors' = visitors
                /\ approving' = approving
     /\ \A id \in DOMAIN visitors :
          /\ Approve(id, FALSE)
             => (id \in approving' /\ reply'.status \notin {404, 500})
          /\ ApproveSelect(id, FALSE) => reply'.status = 200
     /\ (reply'.op = "approve" /\ reply'.status = 200)
        => /\ reply'.id \in DOMAIN visitors'
           /\ visitors' = visitors
           /\ visitors'[reply'.id].id = reply'.id
           /\ visitors'[reply'.id].approved = 1
           /\ reply'.name = visitors'[reply'.id].full_name]_vars

\* C13 witness: an approve request for an id without a record has been
\* answered 404 while the store holds a record that is not approved.
C13_Witness ==
  \E id \in Ids \ DOMAIN visitors :
    /\ reply = Reply("approve", id, 404, <<>>)
    /\ \E i \in DOMAIN visitors : visitors[i].approved = 0

\* The frame counters after one frame went to exactly the connections in
\* clients.
OneFrameTo(fr, clients) ==
  [c \in Conns |-> IF c \in clients THEN fr[c] + 1 ELSE fr[c]]

\* C14: a publish (a release or security-checkout answered 200) writes one
\* frame to each connection that is open at that step and none to any other,
\* whether it closed before or has not opened yet; no other step writes a
\* frame, so a connection that opens later gets no frame of an earlier
\* publish; a connection that never opened has received nothing.
C14_PublishReachesConnectedOnly ==
  [][/\ IF reply'.op \in {"release", "security-checkout"} /\ reply'.status = 200
        THEN /\ frames' = OneFrameTo(frames, dashboardClients)
             /\ dashboardClients' = dashboardClients
             /\ \A c \in closedConns : frames'[c] = frames[c]
        ELSE frames' = frames
     /\ \A c \in Conns \ (dashboardClients' \cup closedConns') : frames'[c] = 0
     /\ \A c \in dashboardClients' \ dashboardClients : frames'[c] = 0]_vars

\* C14 witness: one connection closed before the first publish and holds no
\* frame, the other was open at one publish and missed an earlier one.
C14_Witness ==
  \E c, d \in Conns :
    /\ c \in closedConns /\ frames[c] = 0
    /\ d \in dashboardClients /\ frames[d] = 1
    /\ \E i \in DOMAIN visitors :
         visitors[i].out_time # NULL /\ visitors[i].security_confirmed = 1

\* C15: a release or security-checkout request publishes one event (one frame
\* to each open connection) when it updated a record and was answered 200,
\* and none when it failed, its id having no record or the store having
\* failed; no other step publishes.
C15_PublishOnSuccessOnly ==
  [][IF /\ reply'.op \in {"release", "security-checkout"}
        /\ reply'.status = 200
        /\ reply'.id \in DOMAIN visitors
     THEN frames' = OneFrameTo(frames, dashboardClients)
     ELSE frames' = frames]_vars

\* C16: in each time zone, the export for period day has one row for exactly
\* the records whose in_time is at or after the start of the current day,
\* each with status Active when its out_time is null; a store of one record
\* registered today yields exactly one row.
C16_ExportDay ==
  \A tz \in TzOffsets :
    LET rows == ExportRows(visitors, "day", now, tz)
        today == {i \in DOMAIN visitors :
                    visitors[i].in_time[2] >= StartOfDay(now, tz)}
    IN /\ {row.id : row \in rows} = today
       /\ \A row \in rows :
            visitors[row.id].out_time = NULL => row.status = "Active"
       /\ (Cardinality(DOMAIN visitors) = 1 /\ today = DOMAIN visitors)
          => Cardinality(rows) = 1

\* C17: no step removes a record, turns approved from 1 to 0, turns
\* security_confirmed from 1 to 0, or sets an out_time that was set back to
\* null.
C17_NoTransitionReversed ==
  [][\A i \in DOMAIN visitors :
       /\ i \in DOMAIN visitors'
       /\ visitors[i].approved = 1 => visitors'[i].approved = 1
       /\ visitors[i].security_confirmed = 1
          => visitors'[i].security_confirmed = 1
       /\ visitors[i].out_time # NULL => visitors'[i].out_time # NULL]_vars

\* C17 witness: two records, one of them approved, released and
\* security-confirmed.
C17_Witness ==
  /\ Cardinality(DOMAIN visitors) = 2
  /\ \E i \in DOMAIN visitors :
       /\ visitors[i].approved = 1
       /\ visitors[i].out_time # NULL
       /\ visitors[i].security_confirmed = 1

\* This step keeps the set of records and changes no column of any record
\* other than the columns cols of record id.
OnlyChanges(id, cols) ==
  /\ DOMAIN visitors' = DOMAIN visitors
  /\ \A i \in DOMAIN visitors :
       \A col \in DOMAIN visitors[i] :
         (i # id \/ col \notin cols) => visitors'[i][col] = visitors[i][col]

\* C18: an approve request changes nothing but approved of the record it
\* names, a release nothing but out_time, a security-checkout nothing but
\* security_confirmed and security_out_time (id, in_time and every other
\* record are left as they were); an approval writes no frame to any
\* connection and leaves the status of every record, as the listing and the
\* export derive it, unchanged.
C18_TransitionsTouchOwnFields ==
  [][\A id \in Ids, dbErr \in BOOLEAN :
       /\ (reply'.op \in {"none", "approve"} /\ Approve(id, dbErr))
          => /\ OnlyChanges(id, {"approved"})
             /\ frames' = frames
             /\ \A i \in DOMAIN visitors :
                  /\ ExportStatus(visitors'[i]) = ExportStatus(visitors[i])
                  /\ \A st \in {"active", "released", "security-pending"} :
                       ListWhere(st, visitors'[i]) = ListWhere(st, visitors[i])
       /\ ApproveSelect(id, dbErr) => (visitors' = visitors /\ frames' = frames)
       /\ Release(id, dbErr) => OnlyChanges(id, {"out_time"})
       /\ SecurityCheckout(id, dbErr)
          => OnlyChanges(id, {"security_confirmed", "security_out_time"})]_vars

\* C18 witness: with a dashboard connected that has received no frame, one
\* of two records has been approved and the other is as it was stored.
C18_Witness ==
  \E i, j \in DOMAIN visitors, c \in dashboardClients :
    /\ i # j
    /\ frames[c] = 0
    /\ visitors[i].approved = 1
    /\ reply = Reply("approve", i, 200, visitors[i].full_name)
    /\ visitors[j] = [visitors[i] EXCEPT !.id = j, !.approved = 0]

\* C19: the step that stores a registration adds exactly one record, with
\* out_time null, approved 0, security_confirmed 0, security_out_time null
\* and the submitted full_name; the record is in the active listing, total
\* and active of the statistics each grow by one, and no other record
\* changes.  A registration answered 400 or 500 changes no record.  Every
\* other step of a registration changes at most qr_code_path and email_sent,
\* and only of a record a registration created.
C19_RegisterCreatesOneActiveRecord ==
  [][/\ \A r \in Reqs :
          (reqs[r].visitorId = 0 /\ reqs'[r].visitorId # 0)
          => LET id == reqs'[r].visitorId
             IN /\ id \notin DOMAIN visitors
                /\ DOMAIN visitors' = DOMAIN visitors \cup {id}
                /\ \A i \in DOMAIN visitors : visitors'[i] = visitors[i]
                /\ visitors'[id].id = id
                /\ visitors'[id].full_name = reqs[r].body.full_name
                /\ visitors'[id].out_time = NULL
                /\ visitors'[id].approved = 0
                /\ visitors'[id].security_confirmed = 0
                /\ visitors'[id].security_out_time = NULL
                /\ \A l \in List(visitors', "active") :
                     \E k \in DOMAIN l : l[k] = id
                /\ Stats(visitors').total = Stats(visitors).total + 1
                /\ Stats(visitors').active = Stats(visitors).active + 1
     /\ \A r \in Reqs :
          (reqs[r].response = NoResponse /\ reqs'[r].response \in {<<400>>, <<500>>})
          => visitors' = visitors
     /\ (\A r \in Reqs : reqs'[r].visitorId = reqs[r].visitorId)
        => /\ DOMAIN visitors' = DOMAIN visitors
           /\ \A i \in DOMAIN visitors :
                /\ \A col \in DOMAIN visitors[i] \ {"qr_code_path", "email_sent"} :
                     visitors'[i][col] = visitors[i][col]
                /\ visitors'[i] # visitors[i]
                   => \E r \in Reqs : reqs[r].visitorId = i]_vars

\* C19 witness: two stored registrations, both active; the side channels of
\* the first have set its qr_code_path and email_sent, the second is as the
\* INSERT left it.
C19_Witness ==
  /\ DOMAIN visitors = {1, 2}
  /\ visitors[1].qr_code_path # NULL /\ visitors[1].email_sent = 1
  /\ visitors[2].qr_code_path = NULL /\ visitors[2].email_sent = 0
  /\ ListIds(visitors, "active") = {1, 2}
  /\ Stats(visitors).total = 2 /\ Stats(visitors).active = 2

\* C20: a release and a security-checkout of an existing record that is not
\* approved, the store answering, are answered 200, set out_time and
\* security_confirmed and leave approved 0; an approve request for a record
\* that is already released, the store answering, sets approved, keeps
\* out_time and is answered 200.
C20_ApprovalDoesNotGateRelease ==
  [][\A id \in DOMAIN visitors :
       /\ (visitors[id].approved = 0 /\ Release(id, FALSE))
          => /\ reply'.status = 200
             /\ visitors'[id].out_time # NULL
             /\ visitors'[id].approved = 0
       /\ (visitors[id].approved = 0 /\ SecurityCheckout(id, FALSE))
          => /\ reply'.status = 200
             /\ visitors'[id].security_confirmed = 1
             /\ visitors'[id].approved = 0
       /\ (visitors[id].out_time # NULL /\ Approve(id, FALSE))
          => /\ id \in approving'
             /\ reply'.status \notin {404, 500}
             /\ visitors'[id].approved = 1
             /\ visitors'[id].out_time = visitors[id].out_time
       /\ (visitors[id].out_time # NULL /\ ApproveSelect(id, FALSE))
          => reply'.status = 200]_vars

\* C20 witness: a record released and security-confirmed that was never
\* approved.
C20_Witness ==
  \E i \in DOMAIN visitors :
    /\ visitors[i].out_time # NULL
    /\ visitors[i].security_confirmed = 1
    /\ visitors[i].approved = 0
    /\ i \notin approving

\* The registration r has ended and left email_sent of its record 0 with no
\* UPDATE of it queued.
EndedUnsent(r) ==
  /\ reqs[r].pc = "done"
  /\ reqs[r].visitorId \in DOMAIN visitors
  /\ visitors[reqs[r].visitorId].email_sent = 0
  /\ Stmt("email_sent", reqs[r].visitorId) \notin pending

\* C21: the send to the host is awaited only once the send to HR has
\* succeeded, and a failed HR send ends sendEmails with nothing queued; the
\* UPDATE of email_sent is queued only by the step on which the host send of
\* that registration succeeds, and email_sent turns 1 only when that UPDATE
\* runs; a registration one of whose sends failed ends with email_sent 0 and
\* it stays 0 in every later state.  The approve, release and
\* security-checkout steps do not write email_sent and their answers are
\* decided by the existence of the record alone, whatever email_sent is.
C21_EmailSentAfterBothSends ==
  [][/\ \A r \in Reqs :
          /\ reqs'[r].pc = "host" => reqs[r].pc \in {"hr", "host"}
          /\ (RegisterHRDone(r, FALSE) \/ RegisterHostDone(r, FALSE))
             => (pending' = pending /\ visitors' = visitors /\ EndedUnsent(r)')
          /\ EndedUnsent(r) => EndedUnsent(r)'
          /\ reqs[r].pc = "done" => reqs'[r] = reqs[r]
     /\ \A i \in Ids :
          /\ (Stmt("email_sent", i) \in pending' \ pending)
             => \E r \in Reqs :
                  reqs[r].visitorId = i /\ RegisterHostDone(r, TRUE)
          /\ (i \in DOMAIN visitors /\ visitors'[i].email_sent # visitors[i].email_sent)
             => /\ RunPending(Stmt("email_sent", i))
                /\ visitors'[i].email_sent = 1
                /\ \E r \in Reqs :
                     reqs[r].visitorId = i /\ reqs[r].response = <<200, i>>
     /\ (reply'.op # "none" \/ approving' # approving)
        => \A i \in DOMAIN visitors :
             visitors'[i].email_sent = visitors[i].email_sent
     /\ reply'.op \in {"release", "security-checkout"} => reply'.status = 200
     /\ reply'.op = "approve"
        => (reply'.status = 200 <=> reply'.id \in DOMAIN visitors)]_vars

\* C21 witness: the record of one registration has email_sent 1; the other
\* registration has ended after a failed send, its record has email_sent 0
\* and has been approved, released and security-confirmed all the same.
C21_Witness ==
  \E r, q \in Reqs :
    /\ reqs[r].pc = "done" /\ reqs[r].visitorId \in DOMAIN visitors
    /\ visitors[reqs[r].visitorId].email_sent = 1
    /\ EndedUnsent(q)
    /\ visitors[reqs[q].visitorId].approved = 1
    /\ visitors[reqs[q].visitorId].out_time # NULL
    /\ visitors[reqs[q].visitorId].security_confirmed = 1

\* The record id holds the fields of the form of request r, and the photo of
\* that request.
RecordOf(r, id) ==
  /\ id \in DOMAIN visitors
  /\ visitors[id].id = id
  /\ visitors[id].full_name = reqs[r].body.full_name
  /\ visitors[id].contact_number = reqs[r].body.contact_number
  /\ visitors[id].department_visiting = reqs[r].body.department_visiting
  /\ visitors[id].person_to_visit = reqs[r].body.person_to_visit
  /\ visitors[id].photo_path = PhotoPath(r, reqs[r].body)

\* C22: with registrations in flight together, in every interleaving of
\* their steps: the id a request holds, and the id its 200 response carries,
\* is that of the record made from its own form, and no two requests hold
\* the same id; the UPDATE a registration queues names its own record and
\* the QR file of its own id; and an UPDATE that runs changes its column of
\* the record it names and nothing of any other record.
C22_OverlappingRegistersKeepTheirOwn ==
  [][/\ \A r \in Reqs :
          /\ reqs'[r].visitorId # 0
             => /\ RecordOf(r, reqs[r].visitorId)'
                /\ \A q \in Reqs \ {r} : reqs'[q].visitorId # reqs'[r].visitorId
          /\ Len(reqs'[r].response) = 2
             => /\ reqs'[r].response = <<200, reqs'[r].visitorId>>
                /\ RecordOf(r, reqs[r].response[2])'
          /\ reqs'[r] # reqs[r]
             => /\ \A q \in Reqs \ {r} : reqs'[q] = reqs[q]
                /\ pending \subseteq pending'
                /\ \A st \in pending' \ pending :
                     /\ st.id = reqs[r].visitorId
                     /\ st.col = "qr_code_path"
                        => reqs'[r].qrPath = <<"uploads/qr", reqs[r].visitorId>>
                /\ \A i \in DOMAIN visitors : visitors'[i] = visitors[i]
     /\ \A st \in pending \ pending' :
          /\ pending' = pending \ {st}
          /\ reqs' = reqs
          /\ \A i \in DOMAIN visitors :
               \A col \in DOMAIN visitors[i] :
                 (i # st.id \/ col # st.col) => visitors'[i][col] = visitors[i][col]
          /\ st.col = "qr_code_path"
             => visitors'[st.id].qr_code_path = <<"uploads/qr", st.id>>
          /\ st.col = "email_sent" => visitors'[st.id].email_sent = 1]_vars

\* C22 witness: two registrations of different forms overlapped, the one
\* that arrived first was stored second; both have answered with the id of
\* their own record, both QR paths are stored, and the e-mails of one only
\* went out.
C22_Witness ==
  /\ reqs[1].body # reqs[2].body
  /\ reqs[1].response = <<200, 2>> /\ reqs[2].response = <<200, 1>>
  /\ RecordOf(1, 2) /\ RecordOf(2, 1)
  /\ visitors[1].qr_code_path = <<"uploads/qr", 1>>
  /\ visitors[2].qr_code_path = <<"uploads/qr", 2>>
  /\ visitors[1].email_sent = 1 /\ visitors[2].email_sent = 0
  /\ pending = {}

====
